---- MODULE Spec2Model ----
(***************************************************************************)
(* Model of isthisfinal.py, a Streamlit script.  One process serves a      *)
(* session; every user interaction re-executes the script top to bottom    *)
(* (a "run").  Process-wide state survives between runs: the capability    *)
(* flag HAS_MIC, the st.cache_resource cache of load_model, and the        *)
(* temporary files on disk.  Everything else is rebuilt by each run.       *)
(*                                                                         *)
(* Library calls that may raise are modelled for the three error classes   *)
(* of the error taxonomy: the pretrained-model fetch, torchaudio.load of   *)
(* an uploaded file, and plot_audio_features.  The script contains no      *)
(* try/except after line 17, so an exception ends the run (Streamlit       *)
(* shows it and keeps the session alive).                                  *)
(***************************************************************************)
EXTENDS Integers, Sequences, FiniteSets, TLC

\* ---------------------------------------------------------------- bounds
MaxRuns     == 3      \* script runs per explored session
MaxChannels == 2      \* channel counts of uploaded files: 1..MaxChannels
MaxLen      == 2      \* sample counts of uploaded files: 1..MaxLen

\* ------------------------------------------------------ program constants
TargetRate  == 16000  \* line 79/81/82
fs          == 16000  \* line 65
MinDuration == 1      \* st.slider lower end, line 62
MaxDuration == 20     \* st.slider upper end, line 62

Rates == {8000, TargetRate, 44100}   \* native rates of uploaded files

UPLOAD == "Upload Audio File"
RECORD == "Record via Microphone"

VARIABLES
    HAS_MIC,        \* lines 12-17, fixed at process start
    cache,          \* st.cache_resource entry of load_model: 0 = empty, else model id
    fetches,        \* number of executions of ConvTasNet.from_pretrained
    files,          \* temp files on disk: name -> label of the artifact it holds
    issued,         \* number of distinct names the name generator has produced
    runs,           \* script runs started
    pc,             \* position of the current run
    model,          \* line 33 (0 = not bound yet)
    options,        \* line 45-47
    input_method,   \* line 49
    uploaded_file,  \* line 56
    pressed,        \* line 63, value of st.button
    decoded,        \* what torchaudio.load returned (lines 58 / 70)
    waveform,       \* line 51
    sr,             \* line 52 (0 = None)
    warned,         \* st.warning of line 80 shown in this run
    ops,            \* transforms applied by lines 76-82 in this run
    temp_path, temp_mix, temp_src1, temp_src2,   \* mktemp results (0 = unbound)
    overwritten,    \* names whose file was written over an existing artifact in this run
    sepInput,       \* what was handed to model.separate (line 96)
    rendered,       \* signals whose plot was shown in this run
    renderFailed,   \* signal whose plot raised in this run, or "none"
    stages,         \* stages executed by this run, in order
    err,            \* exception that ended this run, or "none"
    files0          \* files at the start of this run

vars == << HAS_MIC, cache, fetches, files, issued, runs, pc, model, options,
           input_method, uploaded_file, pressed, decoded, waveform, sr, warned,
           ops, temp_path, temp_mix, temp_src1, temp_src2, overwritten, sepInput,
           rendered, renderFailed, stages, err, files0 >>

procVars == << HAS_MIC, cache, fetches, files, issued, runs, files0 >>

\* ------------------------------------------------------------ data values
NoWave  == [ch |-> 0, len |-> 0, hist |-> << >>]            \* waveform = None
NoFile  == [kind |-> "None", ch |-> 0, sr |-> 0, len |-> 0] \* uploaded_file = None
NoInput == [waveform |-> NoWave, sr |-> 0]

\* What st.file_uploader can return: nothing, a decodable WAV, or bytes that
\* are not valid audio.
UploadChoices ==
    {NoFile, [kind |-> "bad", ch |-> 0, sr |-> 0, len |-> 0]}
    \cup { [kind |-> "wav", ch |-> c, sr |-> r, len |-> l] :
             c \in 1..MaxChannels, r \in Rates, l \in 1..MaxLen }

Signals == {"Mixture", "Source 1", "Source 2"}

\* ---------------------------------------------------------- pure helpers
\* waveform.mean(dim=0, keepdim=True): the mean over one channel is that channel.
Mean(w) ==
    IF w.ch = 1 THEN w
    ELSE [w EXCEPT !.ch = 1, !.hist = Append(@, [op |-> "mean", arg |-> w.ch])]

\* torchaudio.transforms.Resample(orig, new)(w): returns w itself when the rates
\* are equal, else ceil(new * len / orig) samples of band-limited interpolation.
Resample(w, orig, new) ==
    IF orig = new THEN w
    ELSE [w EXCEPT !.len  = (new * w.len + orig - 1) \div orig,
                   !.hist = Append(@, [op |-> "resample", arg |-> orig])]

\* Lines 76-82 as a function of (waveform, sr).
PreprocessNoDownmix(w, r) ==
    LET rs == r # TargetRate
    IN [waveform |-> IF rs THEN Resample(w, r, TargetRate) ELSE w,
        sr       |-> IF rs THEN TargetRate ELSE r,
        warned   |-> rs,
        ops      |-> IF rs THEN <<"resample">> ELSE << >>]

PreprocessAlwaysResample(w, r) ==
    LET dm == w.ch > 1
        w1 == IF dm THEN Mean(w) ELSE w
    IN [waveform |-> Resample(w1, r, TargetRate),
        sr       |-> TargetRate,
        warned   |-> TRUE,
        ops      |-> (IF dm THEN <<"mean">> ELSE << >>) \o <<"resample">>]

Preprocess(w, r) ==
    LET dm == w.ch > 1
        w1 == IF dm THEN Mean(w) ELSE w
        rs == r # TargetRate
    IN [waveform |-> IF rs THEN Resample(w1, r, TargetRate) ELSE w1,
        sr       |-> IF rs THEN TargetRate ELSE r,
        warned   |-> rs,
        ops      |-> (IF dm THEN <<"mean">> ELSE << >>)
                     \o (IF rs THEN <<"resample">> ELSE << >>)]

\* Lines 45-47.
OptionsAlwaysMic(hasMic) == <<UPLOAD, RECORD>>

Options(hasMic) == IF hasMic THEN <<UPLOAD, RECORD>> ELSE <<UPLOAD>>

Range(s) == { s[i] : i \in DOMAIN s }

\* tempfile.mktemp: a random name that does not exist on disk at the time of
\* the call.  Names are numbered in the order the generator first produces
\* them, so a call returns either a name produced before whose file does not
\* exist, or the next new name.
Mktemp(exists) == { n \in 1..(issued + 1) : n \notin exists }

Max(a, b) == IF a >= b THEN a ELSE b

\* sf.write / wavio.write: create or truncate the file.
WriteFile(fsys, n, label) == [x \in (DOMAIN fsys) \cup {n} |-> IF x = n THEN label ELSE fsys[x]]

\* ------------------------------------------------------------------ Init
Init ==
    /\ HAS_MIC \in BOOLEAN
    /\ cache = 0
    /\ fetches = 0
    /\ files = << >>
    /\ issued = 0
    /\ runs = 0
    /\ pc = "idle"
    /\ model = 0
    /\ options = << >>
    /\ input_method = "none"
    /\ uploaded_file = NoFile
    /\ pressed = FALSE
    /\ decoded = NoInput
    /\ waveform = NoWave
    /\ sr = 0
    /\ warned = FALSE
    /\ ops = << >>
    /\ temp_path = 0 /\ temp_mix = 0 /\ temp_src1 = 0 /\ temp_src2 = 0
    /\ overwritten = {}
    /\ sepInput = [ch |-> 0, sr |-> 0, len |-> 0]
    /\ rendered = {}
    /\ renderFailed = "none"
    /\ stages = << >>
    /\ err = "none"
    /\ files0 = << >>

\* Per-run variables left alone by a step, by group.
inVars   == << options, input_method, uploaded_file, pressed, decoded >>
waveVars == << waveform, sr, warned, ops >>
tempVars == << temp_path, temp_mix, temp_src1, temp_src2, overwritten >>
outVars  == << sepInput, rendered, renderFailed >>

\* An uncaught exception: Streamlit ends the run and shows the error.
Raise(e) == pc' = "aborted" /\ err' = e

\* --------------------------------------------------------------- actions
\* A user interaction (or the first page load) starts a script run.
StartRun ==
    /\ pc \in {"idle", "done", "aborted"}
    /\ runs < MaxRuns
    /\ runs' = runs + 1
    /\ pc' = "load_model"
    /\ model' = 0
    /\ options' = << >>
    /\ input_method' = "none"
    /\ uploaded_file' = NoFile
    /\ pressed' = FALSE
    /\ decoded' = NoInput
    /\ waveform' = NoWave
    /\ sr' = 0
    /\ warned' = FALSE
    /\ ops' = << >>
    /\ temp_path' = 0 /\ temp_mix' = 0 /\ temp_src1' = 0 /\ temp_src2' = 0
    /\ overwritten' = {}
    /\ sepInput' = [ch |-> 0, sr |-> 0, len |-> 0]
    /\ rendered' = {}
    /\ renderFailed' = "none"
    /\ stages' = << >>
    /\ err' = "none"
    /\ files0' = files
    /\ UNCHANGED << HAS_MIC, cache, fetches, files, issued >>

\* Line 33, model = load_model() under @st.cache_resource: a cached value is
\* returned without running the body; otherwise the body runs, and its result
\* is stored only if it returns.
LoadModelNoCache ==
    /\ pc = "load_model"
    /\ fetches' = fetches + 1
    /\ \/ /\ cache' = fetches + 1
          /\ model' = fetches + 1
          /\ pc' = "select"
          /\ err' = err
       \/ /\ Raise("ModelUnavailableError")
          /\ UNCHANGED << cache, model >>
    /\ UNCHANGED << HAS_MIC, files, issued, runs, files0, inVars, waveVars,
                    tempVars, outVars, stages >>

LoadModel ==
    /\ pc = "load_model"
    /\ \/ /\ cache # 0
          /\ model' = cache
          /\ pc' = "select"
          /\ UNCHANGED << cache, fetches, err >>
       \/ /\ cache = 0
          /\ fetches' = fetches + 1
          /\ cache' = fetches + 1
          /\ model' = fetches + 1
          /\ pc' = "select"
          /\ err' = err
       \/ /\ cache = 0
          /\ fetches' = fetches + 1
          /\ Raise("ModelUnavailableError")
          /\ UNCHANGED << cache, model >>
    /\ UNCHANGED << HAS_MIC, files, issued, runs, files0, inVars, waveVars,
                    tempVars, outVars, stages >>

\* Lines 45-52: build the option list, read the radio widget.
SelectInput ==
    /\ pc = "select"
    /\ options' = Options(HAS_MIC)
    /\ \E m \in Range(Options(HAS_MIC)) : input_method' = m
    /\ pc' = "ingest"
    /\ UNCHANGED << procVars, model, uploaded_file, pressed, decoded, waveVars,
                    tempVars, outVars, stages, err >>

\* Lines 55-58.
UploadNoDecodeError ==
    /\ pc = "ingest"
    /\ input_method = UPLOAD
    /\ \E f \in UploadChoices :
         /\ uploaded_file' = f
         /\ IF f.kind = "None"
            THEN UNCHANGED << decoded, waveform, sr, stages >>
            ELSE /\ decoded' = [waveform |-> [ch |-> Max(f.ch, 1), len |-> f.len, hist |-> << >>],
                                sr |-> IF f.kind = "wav" THEN f.sr ELSE TargetRate]
                 /\ waveform' = decoded'.waveform
                 /\ sr' = decoded'.sr
                 /\ stages' = Append(stages, "ingest")
    /\ pc' = "main"
    /\ UNCHANGED << procVars, model, options, input_method, pressed, warned, ops,
                    tempVars, outVars, err >>

Upload ==
    /\ pc = "ingest"
    /\ input_method = UPLOAD
    /\ \E f \in UploadChoices :
         /\ uploaded_file' = f
         /\ \/ /\ f.kind = "None"
               /\ pc' = "main"
               /\ UNCHANGED << decoded, waveform, sr, stages, err >>
            \/ /\ f.kind = "wav"
               /\ decoded' = [waveform |-> [ch |-> f.ch, len |-> f.len, hist |-> << >>],
                              sr |-> f.sr]
               /\ waveform' = decoded'.waveform
               /\ sr' = decoded'.sr
               /\ stages' = Append(stages, "ingest")
               /\ pc' = "main"
               /\ err' = err
            \/ /\ f.kind = "bad"
               /\ Raise("DecodeError")
               /\ UNCHANGED << decoded, waveform, sr, stages >>
    /\ UNCHANGED << procVars, model, options, input_method, pressed, warned, ops,
                    tempVars, outVars >>

\* Lines 61-72, with the button's value b and the slider's value duration.
RecordBranch(b, duration) ==
    IF b
    THEN \E n \in Mktemp(DOMAIN files) :
           /\ temp_path' = n
           /\ issued' = Max(issued, n)
           /\ overwritten' = overwritten \cup ({n} \cap DOMAIN files)
           /\ files' = WriteFile(files, n, "rec")
           /\ decoded' = [waveform |-> [ch |-> 1, len |-> duration * fs, hist |-> << >>],
                          sr |-> fs]
           /\ waveform' = decoded'.waveform
           /\ sr' = decoded'.sr
           /\ stages' = Append(stages, "ingest")
    ELSE UNCHANGED << temp_path, issued, overwritten, files, decoded, waveform, sr, stages >>

\* The elif of line 61: its body runs only if the condition holds.
RecordIgnoringButton ==
    /\ pc = "ingest"
    /\ input_method # UPLOAD
    /\ IF input_method = RECORD /\ HAS_MIC
       THEN \E b \in BOOLEAN, duration \in MinDuration..MaxDuration :
              /\ pressed' = b
              /\ RecordBranch(TRUE, duration)
       ELSE UNCHANGED << pressed, temp_path, issued, overwritten, files, decoded,
                         waveform, sr, stages >>
    /\ pc' = "main"
    /\ UNCHANGED << HAS_MIC, cache, fetches, runs, files0, model, options,
                    input_method, uploaded_file, warned, ops, temp_mix, temp_src1,
                    temp_src2, outVars, err >>

Record ==
    /\ pc = "ingest"
    /\ input_method # UPLOAD
    /\ IF input_method = RECORD /\ HAS_MIC
       THEN \E b \in BOOLEAN, duration \in MinDuration..MaxDuration :
              /\ pressed' = b
              /\ RecordBranch(b, duration)
       ELSE UNCHANGED << pressed, temp_path, issued, overwritten, files, decoded,
                         waveform, sr, stages >>
    /\ pc' = "main"
    /\ UNCHANGED << HAS_MIC, cache, fetches, runs, files0, model, options,
                    input_method, uploaded_file, warned, ops, temp_mix, temp_src1,
                    temp_src2, outVars, err >>

\* Lines 75 and 125-126: nothing was ingested, show the idle message.
Idle ==
    /\ pc = "main"
    /\ waveform = NoWave \/ sr = 0
    /\ stages' = Append(stages, "idle")
    /\ pc' = "done"
    /\ UNCHANGED << procVars, model, inVars, waveVars, tempVars, outVars, err >>

\* Lines 75-82.
PreprocessSkipsMixture ==
    /\ pc = "main"
    /\ waveform # NoWave /\ sr # 0
    /\ LET p == Preprocess(waveform, sr)
       IN /\ waveform' = p.waveform
          /\ sr' = p.sr
          /\ warned' = p.warned
          /\ ops' = p.ops
    /\ stages' = Append(stages, "preprocess")
    /\ pc' = "separate"
    /\ UNCHANGED << procVars, model, inVars, tempVars, outVars, err >>

PreprocessStep ==
    /\ pc = "main"
    /\ waveform # NoWave /\ sr # 0
    /\ LET p == Preprocess(waveform, sr)
       IN /\ waveform' = p.waveform
          /\ sr' = p.sr
          /\ warned' = p.warned
          /\ ops' = p.ops
    /\ stages' = Append(stages, "preprocess")
    /\ pc' = "mix_write"
    /\ UNCHANGED << procVars, model, inVars, tempVars, outVars, err >>

\* Lines 84-86: name the mixture file and write it.
MixWrite ==
    /\ pc = "mix_write"
    /\ \E n \in Mktemp(DOMAIN files) :
         /\ temp_mix' = n
         /\ issued' = Max(issued, n)
         /\ overwritten' = overwritten \cup ({n} \cap DOMAIN files)
         /\ files' = WriteFile(files, n, "mix")
    /\ stages' = Append(stages, "mix_write")
    /\ pc' = "mix_present"
    /\ UNCHANGED << HAS_MIC, cache, fetches, runs, files0, model, inVars, waveVars,
                    temp_path, temp_src1, temp_src2, outVars, err >>

\* st.audio followed by plot_audio_features (lines 36-42): the plot is shown,
\* or the call raises and nothing catches it.
Present(signal, stage, next) ==
    \/ /\ rendered' = rendered \cup {signal}
       /\ stages' = Append(stages, stage)
       /\ pc' = next
       /\ UNCHANGED << renderFailed, err >>
    \/ /\ renderFailed' = signal
       /\ Raise("RenderError")
       /\ UNCHANGED << rendered, stages >>

\* Lines 87-88.
MixPresent ==
    /\ pc = "mix_present"
    /\ Present("Mixture", "mix_present", "separate")
    /\ UNCHANGED << procVars, model, inVars, waveVars, tempVars, sepInput >>

\* Lines 91-99.
Separate ==
    /\ pc = "separate"
    /\ model # 0
    /\ sepInput' = [ch |-> waveform.ch, sr |-> sr, len |-> waveform.len]
    /\ stages' = Append(stages, "separate")
    /\ pc' = "denoise"
    /\ UNCHANGED << procVars, model, inVars, waveVars, tempVars, rendered,
                    renderFailed, err >>

\* Lines 101-103.
Denoise ==
    /\ pc = "denoise"
    /\ stages' = stages \o <<"denoise1", "denoise2">>
    /\ pc' = "save"
    /\ UNCHANGED << procVars, model, inVars, waveVars, tempVars, outVars, err >>

\* Lines 106-109: both names are generated, then both files are written.
SaveOutputs ==
    /\ pc = "save"
    /\ \E n1 \in Mktemp(DOMAIN files) :
         \E n2 \in { n \in 1..(Max(issued, n1) + 1) : n \notin DOMAIN files } :
           /\ temp_src1' = n1
           /\ temp_src2' = n2
           /\ issued' = Max(Max(issued, n1), n2)
           /\ overwritten' = overwritten \cup ({n1} \cap DOMAIN files)
                               \cup ({n2} \cap (DOMAIN files \cup {n1}))
           /\ files' = WriteFile(WriteFile(files, n1, "src1"), n2, "src2")
    /\ stages' = Append(stages, "write_sources")
    /\ pc' = "present1"
    /\ UNCHANGED << HAS_MIC, cache, fetches, runs, files0, model, inVars, waveVars,
                    temp_path, temp_mix, outVars, err >>

\* Lines 113-116.
PresentSrc1 ==
    /\ pc = "present1"
    /\ Present("Source 1", "present1", "present2")
    /\ UNCHANGED << procVars, model, inVars, waveVars, tempVars, sepInput >>

\* Lines 118-121.
PresentSrc2 ==
    /\ pc = "present2"
    /\ Present("Source 2", "present2", "complete")
    /\ UNCHANGED << procVars, model, inVars, waveVars, tempVars, sepInput >>

\* Line 123.
Complete ==
    /\ pc = "complete"
    /\ stages' = Append(stages, "complete")
    /\ pc' = "done"
    /\ UNCHANGED << procVars, model, inVars, waveVars, tempVars, outVars, err >>

Next ==
    \/ StartRun
    \/ LoadModel
    \/ SelectInput
    \/ Upload
    \/ Record
    \/ Idle
    \/ PreprocessStep
    \/ MixWrite
    \/ MixPresent
    \/ Separate
    \/ Denoise
    \/ SaveOutputs
    \/ PresentSrc1
    \/ PresentSrc2
    \/ Complete

Spec == Init /\ [][Next]_vars

\* ------------------------------------------------------------ vocabulary
\* Positions after the input branches of lines 55-72 have been executed.
PostIngest == {"main", "mix_write", "mix_present", "separate", "denoise", "save",
               "present1", "present2", "complete", "done"}

\* The stages of a run that has input, in the order of the script.
Canon == <<"ingest", "preprocess", "mix_write", "mix_present", "separate",
           "denoise1", "denoise2", "write_sources", "present1", "present2",
           "complete">>

PipelineStages == Range(Canon) \ {"ingest"}

IsPrefix(s, t) == Len(s) <= Len(t) /\ \A i \in 1..Len(s) : s[i] = t[i]

Did(stage) == stage \in Range(stages)

Normalized(d) == d.waveform.ch = 1 /\ d.sr = TargetRate

\* The run read its input widgets and the user had supplied nothing.
NoUserInput ==
    /\ pc \in PostIngest
    /\ \/ input_method = UPLOAD /\ uploaded_file = NoFile
       \/ input_method = RECORD /\ ~pressed

\* The names this run obtained from mktemp, in the order of the calls.
RunNames == SelectSeq(<<temp_path, temp_mix, temp_src1, temp_src2>>, LAMBDA n : n # 0)

NewFiles == DOMAIN files \ DOMAIN files0

\* ----------------------------------------------------------------- claims

\* C1: whenever the separation step is reached, and for whatever was handed to
\* model.separate, the waveform has exactly one channel and its recorded sample
\* rate is exactly 16000.
C1_SeparateInputNormalized ==
    /\ pc = "separate" => waveform.ch = 1 /\ sr = TargetRate
    /\ Did("separate") => sepInput.ch = 1 /\ sepInput.sr = TargetRate

C1_Witness ==
    /\ Did("separate")
    /\ decoded.waveform.ch > 1
    /\ decoded.sr # TargetRate

\* C2: when the uploaded file is not valid audio the run ends with a
\* DecodeError at the upload step: no stage has executed, no temporary name
\* was generated and no file was created in that run.
C2_DecodeErrorStopsRun ==
    (input_method = UPLOAD /\ uploaded_file.kind = "bad") =>
        /\ pc = "aborted" /\ err = "DecodeError"
        /\ stages = << >>
        /\ waveform = NoWave /\ sr = 0
        /\ RunNames = << >>
        /\ files = files0
        /\ rendered = {} /\ sepInput.ch = 0

C2_Witness ==
    /\ err = "DecodeError"
    /\ uploaded_file.kind = "bad"
    /\ DOMAIN files0 # {}

\* C3: without the capture libraries the microphone option is never among the
\* options, the only selectable source is file upload, the recording branch
\* never runs (no staging file, button never read) and no exception comes
\* from the missing capability.
C3_NoMicNoRecordOption ==
    ~HAS_MIC =>
        /\ RECORD \notin Range(options)
        /\ pc \in PostIngest \cup {"ingest"} => options = <<UPLOAD>>
        /\ input_method # RECORD
        /\ temp_path = 0 /\ ~pressed
        /\ \A n \in DOMAIN files : files[n] # "rec"
        /\ err \in {"none", "ModelUnavailableError", "DecodeError", "RenderError"}

C3_Witness ==
    /\ ~HAS_MIC
    /\ pc = "done"
    /\ Did("complete")

\* C4: a run in which no file is uploaded, or the record button is not
\* pressed, keeps waveform and sr at None, executes no pipeline stage, creates
\* no file and ends with only the idle message; the idle message and a
\* pipeline stage never occur in the same run.
C4_NoOutputUntilInput ==
    /\ NoUserInput =>
         /\ waveform = NoWave /\ sr = 0
         /\ Range(stages) \subseteq {"idle"}
         /\ files = files0 /\ RunNames = << >>
         /\ rendered = {} /\ sepInput.ch = 0
         /\ pc \in {"main", "done"}
    /\ (NoUserInput /\ pc = "done") => stages = <<"idle">>
    /\ Did("idle") => Range(stages) \cap (PipelineStages \cup {"ingest"}) = {}

C4_Witness ==
    /\ pc = "done"
    /\ input_method = RECORD /\ ~pressed
    /\ stages = <<"idle">>
    /\ DOMAIN files # {}

\* C5: a plot that fails for one signal does not stop the run: when the run
\* is over, every other signal has been rendered.
C5_RenderFailuresCaughtPerPlot ==
    (pc \in {"done", "aborted"} /\ renderFailed # "none") =>
        rendered = Signals \ {renderFailed}

\* C6: once load_model has succeeded the pretrained-model fetch is never
\* executed again and the cached model never changes; every run binds that
\* cached model, and separation only ever happens with it bound.
C6_ModelLoadedOnce ==
    /\ [](pc \in PostIngest \cup {"select", "ingest"} => (model # 0 /\ model = cache))
    /\ [][ /\ cache # 0 => (cache' = cache /\ fetches' = fetches)
           /\ Did("separate")' => (model' # 0 /\ model' = cache')
         ]_vars

C6_Witness ==
    /\ runs >= 2
    /\ fetches = 1
    /\ Did("separate")
    /\ model = cache /\ cache # 0

\* C7: the names mktemp returned in a run are pairwise distinct and distinct
\* from the names of earlier runs, and no write replaced an existing artifact.
C7_TempNamesNeverCollide ==
    /\ \A i, j \in DOMAIN RunNames : i # j => RunNames[i] # RunNames[j]
    /\ Range(RunNames) \cap DOMAIN files0 = {}
    /\ overwritten = {}

\* C8: preprocessing leaves a 1-channel 16000 Hz input untouched (no downmix,
\* no resampling, no warning), preprocessing its own output changes nothing,
\* and a microphone recording is never downmixed or resampled.
C8_PreprocessIdentityIdempotent ==
    decoded # NoInput =>
        LET p == Preprocess(decoded.waveform, decoded.sr)
            q == Preprocess(p.waveform, p.sr)
        IN /\ Normalized(decoded) =>
                 /\ p.waveform = decoded.waveform /\ p.sr = decoded.sr
                 /\ ~p.warned /\ p.ops = << >>
           /\ q.waveform = p.waveform /\ q.sr = p.sr /\ ~q.warned /\ q.ops = << >>
           /\ (Did("preprocess") /\ Normalized(decoded)) =>
                 /\ waveform = decoded.waveform /\ sr = decoded.sr
                 /\ ~warned /\ ops = << >>
           /\ (Did("preprocess") /\ input_method = RECORD) =>
                 /\ Normalized(decoded)
                 /\ waveform = decoded.waveform /\ ~warned /\ ops = << >>

C8_Witness ==
    /\ Did("preprocess")
    /\ input_method = RECORD /\ pressed
    /\ Normalized(decoded)
    /\ waveform = decoded.waveform

\* C9: the stages of a run happen in the script's linear order, none twice
\* and none without all its predecessors; a run with input that reaches its
\* end has executed all of them; the mixture is rendered before separation,
\* and the final success message comes after all three signals are rendered.
C9_StagesLinear ==
    /\ stages = <<"idle">> \/ IsPrefix(stages, Canon)
    /\ (pc = "done" /\ decoded # NoInput) => stages = Canon
    /\ (pc = "separate" \/ Did("separate")) =>
          (Did("mix_write") /\ Did("mix_present") /\ "Mixture" \in rendered)
    /\ Did("complete") => rendered = Signals

C9_Witness ==
    /\ pc = "done"
    /\ stages = Canon

\* C10: no temporary file ever disappears; a completed upload run has added
\* exactly 3 files, a completed recording run exactly 4, an idle run none.
C10_FilesOnlyGrowByRunCount ==
    /\ \A n \in DOMAIN files0 : n \in DOMAIN files
    /\ (pc = "done" /\ Did("complete") /\ input_method = UPLOAD) =>
          Cardinality(NewFiles) = 3
    /\ (pc = "done" /\ Did("complete") /\ input_method = RECORD) =>
          Cardinality(NewFiles) = 4
    /\ (pc = "done" /\ Did("idle")) => files = files0

====
